---- MODULE Spec2Model ----
(***************************************************************************)
(* A state-machine model of firedrake/slate/preconditioners.py: the        *)
(* HybridizationPC python preconditioner (initialize, update, apply,       *)
(* applyTranspose, view) and create_schur_nullspace.                       *)
(*                                                                         *)
(* The mesh is two cells sharing one interior facet.  A conforming         *)
(* (unbroken) vector field has one coefficient on that facet, its broken   *)
(* counterpart one coefficient per cell side; the scalar (L2) field has    *)
(* one coefficient per cell in both spaces; the trace space has one        *)
(* coefficient (the multiplier on the facet).  The blocks of the mixed     *)
(* operator are 1x1 per cell, scaled by the operator's value s in {1,-1}.  *)
(***************************************************************************)
EXTENDS Integers, Sequences, FiniteSets, TLC

VARIABLES
    P,             \* the PETSc PC's operator and its python context (pc.getOperators)
    self,          \* the attributes of the HybridizationPC object
    y,             \* the caller's output vector of apply
    viewer,        \* the caller's ASCII viewer: its tab level
    last,          \* the last call made on the PC: name, error raised, steps run
    updatesInRow   \* number of update calls since the last other call

vars == <<P, self, y, viewer, last, updatesInRow>>

-----------------------------------------------------------------------------
(* Bounds of the model *)

\* entries of the vectors handed to apply range over 0..MaxVal
MaxVal == 1
\* element degrees range over 1..MaxDegree
MaxDegree == 2
\* the operator's nullspace holds at most MaxNullVecs vectors
MaxNullVecs == 2
\* at most MaxUpdates update calls are made in a row
MaxUpdates == 2
\* the viewer's tab level never exceeds MaxTab
MaxTab == 2

-----------------------------------------------------------------------------
(* Values *)

Vals == 0..MaxVal

\* the vectors handed to apply, in the layout of the unbroken mixed space V
MixedVecs == [vec : Vals, scalar : {<<1, 0>>, <<0, 1>>}]

\* the last iterate of a solve that did not converge
Iterates == {0, 1}

Families == {"Raviart-Thomas", "Brezzi-Douglas-Marini", "Lagrange"}

\* P.getNullSpace(): handle 0 is "no nullspace"
NoNullSpace == [handle |-> 0, vecs |-> <<>>]

NullVec(n) == [vec |-> n - 1, scalar |-> <<1, n>>]

NullSpaces ==
    {NoNullSpace} \cup
    {[handle |-> 1, vecs |-> [n \in 1..k |-> NullVec(n)]] : k \in 0..MaxNullVecs}

\* value_shape() of each component of the mixed space: TRUE is vector-valued
ShapeLists ==
    {<<TRUE>>, <<TRUE, FALSE>>, <<FALSE, TRUE>>, <<TRUE, TRUE>>,
     <<FALSE, FALSE>>, <<TRUE, FALSE, FALSE>>, <<TRUE, TRUE, TRUE>>}

Contexts ==
    [extruded : BOOLEAN, shapes : ShapeLists, family : Families,
     degree : 1..MaxDegree, nullspace : NullSpaces, vals : {1, -1}]

\* the contexts of the solve phase: one H(div) x L2 pair, either operator value
SolveContexts ==
    {c \in Contexts :
        /\ ~c.extruded
        /\ c.shapes = <<TRUE, FALSE>>
        /\ c.family = "Raviart-Thomas"
        /\ c.degree = 1
        /\ c.nullspace = NoNullSpace}

-----------------------------------------------------------------------------
(* Objects of the PC.  id 0 is "attribute not set". *)

NoBroken == [id |-> 0, vec |-> <<0, 0>>, scalar |-> <<0, 0>>]
NoUnbroken == [id |-> 0, vec |-> 0, scalar |-> <<0, 0>>]
NoTrace == [id |-> 0, val |-> 0]
NoMatrix == [id |-> 0, val |-> 0, nullspace |-> NoNullSpace]
NoKSP ==
    [id |-> 0, prefix |-> "", operator |-> 0, isSetUp |-> FALSE,
     fromOptions |-> FALSE, nullspaceAtSetUp |-> NoNullSpace, reason |-> "none"]
NoProjector == [id |-> 0, source |-> "", target |-> ""]
NoSpace == [id |-> 0, degree |-> 0]

FieldNames ==
    {"broken_solution", "broken_rhs", "trace_solution",
     "unbroken_solution", "unbroken_rhs"}

ObjectNames ==
    FieldNames \cup
    {"TraceSpace", "schur_rhs", "S", "ksp", "data_projector", "projector"}

NewPC ==
    [initialized |-> FALSE, nextId |-> 1, TraceSpace |-> NoSpace,
     broken_solution |-> NoBroken, broken_rhs |-> NoBroken,
     trace_solution |-> NoTrace,
     unbroken_solution |-> NoUnbroken, unbroken_rhs |-> NoUnbroken,
     schur_rhs |-> NoTrace, S |-> NoMatrix, ksp |-> NoKSP,
     data_projector |-> NoProjector, projector |-> NoProjector]

\* ids of the objects the PC holds
Ids(pc) == [n \in ObjectNames |-> pc[n].id]

NoCall ==
    [name |-> "none", raised |-> "none", log |-> <<>>,
     x |-> [vec |-> 0, scalar |-> <<0, 0>>], tab0 |-> 0]

-----------------------------------------------------------------------------
(* The element-local algebra (Slate tensors) on the two-cell mesh *)

\* FacetNormal on the shared facet, seen from cell i
Normal(i) == IF i = 1 THEN 1 ELSE -1

\* the blocks of Atilde, split by split_form; s is the operator's value
A(s) == s
B(s) == -s
C(s) == s
D(s) == -2 * s
\* A.inv: s * s = 1
Ainv(s) == s
\* M = D - C * A.inv * B, and M.inv (M is 1 or -1)
M(s) == D(s) - C(s) * Ainv(s) * B(s)
Minv(s) == M(s)
\* K_local.T on cell i
KlocalT(i) == Normal(i)

\* the vector rows of Atilde.inv applied to (g, f) on one cell, where
\* Atilde = [[A, B], [C, D]]: A.inv * g - A.inv * B * M.inv * (f - C * A.inv * g)
AtildeInvVec(s, g, f) ==
    Ainv(s) * g - Ainv(s) * B(s) * Minv(s) * (f - C(s) * Ainv(s) * g)

\* K * Atilde.inv * b assembled into the trace space
Forward(s, b) ==
    Normal(1) * AtildeInvVec(s, b.vec[1], b.scalar[1])
    + Normal(2) * AtildeInvVec(s, b.vec[2], b.scalar[2])

\* K * Atilde.inv * K.T assembled into the trace space
SchurComplement(s) ==
    Normal(1) * AtildeInvVec(s, Normal(1), 0)
    + Normal(2) * AtildeInvVec(s, Normal(2), 0)

\* the solution lam of S * lam = b, to the solver's precision
Solve(S, b) == IF S > 0 THEN b \div S ELSE (0 - b) \div (0 - S)

\* u_sol on cell i
PressureLocal(s, i, g, f, lam) ==
    Minv(s) * f[i]
    + Minv(s) * (C(s) * Ainv(s) * KlocalT(i) * lam - C(s) * Ainv(s) * g[i])

\* sigma_sol on cell i
VelocityLocal(s, i, g, u, lam) ==
    Ainv(s) * g[i] - Ainv(s) * (B(s) * u[i] + KlocalT(i) * lam)

Pressure(s, g, f, lam) ==
    <<PressureLocal(s, 1, g, f, lam), PressureLocal(s, 2, g, f, lam)>>

Velocity(s, g, u, lam) ==
    <<VelocityLocal(s, 1, g, u, lam), VelocityLocal(s, 2, g, u, lam)>>

-----------------------------------------------------------------------------
(* Projection between the conforming space V and the broken space V_d *)

SpaceOf(name) ==
    IF name \in {"broken_solution", "broken_rhs"} THEN "V_d" ELSE "V"

\* the vector component v of a function of space `from`, projected into `to`
ProjectVec(v, from, to) ==
    IF from = to THEN v
    ELSE IF from = "V" THEN <<v, v>>
    ELSE (v[1] + v[2]) \div 2

-----------------------------------------------------------------------------
(* A call in progress: the state it works on, its inputs, the steps it has *)
(* started (log) and the error it has raised, if any                       *)

NoOracle == [outcome |-> "converged", iterate |-> 0]

StartCall(x, oracle) ==
    [P |-> P, self |-> self, y |-> y, viewer |-> viewer,
     x |-> x, oracle |-> oracle, log |-> <<>>, raised |-> "none",
     W |-> 0, tdegree |-> 0]

Raise(m, err) == [m EXCEPT !.raised = err]

\* Function(space), allocate_matrix(...), KSP().create(), Projector(...)
Alloc(m, name, obj) ==
    [m EXCEPT !.self[name] = [obj EXCEPT !.id = m.self.nextId],
              !.self.nextId = @ + 1]

-----------------------------------------------------------------------------
(* The steps of initialize *)

CheckExtruded(m) ==
    IF m.P.extruded THEN Raise(m, "NotImplementedError") ELSE m

CheckLen(m) ==
    IF Len(m.P.shapes) # 2 THEN Raise(m, "AssertionError") ELSE m

CheckShapes(m) ==
    IF \A i \in DOMAIN m.P.shapes : m.P.shapes[i]
    THEN Raise(m, "ValueError")
    ELSE m

\* W, = (v for v in V if v.ufl_element().value_shape())
SelectW(m) ==
    LET vs == {i \in DOMAIN m.P.shapes : m.P.shapes[i]}
    IN  IF Cardinality(vs) # 1
        THEN Raise(m, "ValueError")
        ELSE [m EXCEPT !.W = CHOOSE i \in vs : TRUE]

\* a variant that falls back to the element's degree for an unsupported family
TraceDegreeDefault(family, degree) ==
    IF family = "Raviart-Thomas"
    THEN [raised |-> "none", tdegree |-> degree - 1]
    ELSE [raised |-> "none", tdegree |-> degree]

\* the degree of the trace space for the vector space's family and degree
TraceDegree(family, degree) ==
    IF family = "Raviart-Thomas"
    THEN [raised |-> "none", tdegree |-> degree - 1]
    ELSE IF family = "Brezzi-Douglas-Marini"
    THEN [raised |-> "none", tdegree |-> degree]
    ELSE [raised |-> "ValueError", tdegree |-> 0]

DeriveTraceDegree(m) ==
    LET t == TraceDegree(m.P.family, m.P.degree)
    IN  IF t.raised # "none"
        THEN Raise(m, t.raised)
        ELSE [m EXCEPT !.tdegree = t.tdegree]

CreateTraceSpace(m) ==
    Alloc(m, "TraceSpace", [NoSpace EXCEPT !.degree = m.tdegree])

AllocFields(m) ==
    Alloc(Alloc(Alloc(Alloc(Alloc(m,
        "broken_solution", NoBroken),
        "broken_rhs", NoBroken),
        "trace_solution", NoTrace),
        "unbroken_solution", NoUnbroken),
        "unbroken_rhs", NoUnbroken)

AllocSchurRhs(m) == Alloc(m, "schur_rhs", NoTrace)

AllocateS(m) == Alloc(m, "S", NoMatrix)

\* a variant that adds into the matrix without zeroing it first
AssembleSAccumulate(m) ==
    [m EXCEPT !.self.S.val = @ + SchurComplement(m.P.vals)]

\* a variant that assembles into a newly allocated matrix
AssembleSRealloc(m) ==
    Alloc(m, "S", [m.self.S EXCEPT !.val = SchurComplement(m.P.vals)])

\* self._assemble_S(); self.S.force_evaluation()
AssembleS(m) ==
    [m EXCEPT !.self.S.val = SchurComplement(m.P.vals)]

\* project(tmp, tmp_b) of a function of V into V_d
ProjectMixed(v) ==
    [vec |-> ProjectVec(v.vec, "V", "V_d"), scalar |-> v.scalar]

\* a variant that loses the last vector of the nullspace
CreateSchurNullspaceDropLast(Pctx) ==
    IF Pctx.nullspace.handle = 0
    THEN NoNullSpace
    ELSE [handle |-> 1,
          vecs |-> [n \in 1..(Len(Pctx.nullspace.vecs) - 1) |->
                      Forward(Pctx.vals, ProjectMixed(Pctx.nullspace.vecs[n]))]]

CreateSchurNullspace(Pctx) ==
    IF Pctx.nullspace.handle = 0
    THEN NoNullSpace
    ELSE [handle |-> 1,
          vecs |-> [n \in DOMAIN Pctx.nullspace.vecs |->
                      Forward(Pctx.vals, ProjectMixed(Pctx.nullspace.vecs[n]))]]

SetSchurNullspace(m) ==
    LET nullspace == CreateSchurNullspace(m.P)
    IN  IF nullspace.handle # 0
        THEN [m EXCEPT !.self.S.nullspace = nullspace]
        ELSE m

KspCreate(m) ==
    Alloc(m, "ksp", [NoKSP EXCEPT !.prefix = "hybridization_"])

KspSetOperators(m) ==
    [m EXCEPT !.self.ksp.operator = m.self.S.id]

\* the KSP is prepared for the operator as it is now, its nullspace included
KspSetUp(m) ==
    [m EXCEPT !.self.ksp.isSetUp = TRUE,
              !.self.ksp.nullspaceAtSetUp = m.self.S.nullspace]

KspSetFromOptions(m) ==
    [m EXCEPT !.self.ksp.fromOptions = TRUE]

CreateDataProjector(m) ==
    Alloc(m, "data_projector",
          [NoProjector EXCEPT !.source = "broken_rhs", !.target = "broken_rhs"])

CreateProjector(m) ==
    Alloc(m, "projector",
          [NoProjector EXCEPT !.source = "broken_solution",
                              !.target = "unbroken_solution"])

\* a variant that validates the spaces after allocating the fields
InitProgramLateChecks ==
    <<"check_extruded", "alloc_fields", "check_len", "check_shapes", "select_W",
      "trace_degree", "TraceSpace", "alloc_schur_rhs",
      "allocate_S", "assemble_S", "schur_nullspace", "ksp_create",
      "ksp_setOperators", "ksp_setUp", "ksp_setFromOptions",
      "data_projector", "projector">>

InitProgram ==
    <<"check_extruded", "check_len", "check_shapes", "select_W",
      "trace_degree", "TraceSpace", "alloc_fields", "alloc_schur_rhs",
      "allocate_S", "assemble_S", "schur_nullspace", "ksp_create",
      "ksp_setOperators", "ksp_setUp", "ksp_setFromOptions",
      "data_projector", "projector">>

-----------------------------------------------------------------------------
(* The steps of update and apply *)

AssembleSrhs(m) ==
    [m EXCEPT !.self.schur_rhs.val = Forward(m.P.vals, m.self.broken_rhs)]

UpdateProgram == <<"assemble_S", "assemble_Srhs">>

\* with self.unbroken_rhs.dat.vec as v: x.copy(v)
CopyX(m) ==
    [m EXCEPT !.self.unbroken_rhs.vec = m.x.vec,
              !.self.unbroken_rhs.scalar = m.x.scalar]

\* Projector(source, target).project()
ProjectorProject(m, pr) ==
    [m EXCEPT !.self[pr.target].vec =
        ProjectVec(m.self[pr.source].vec, SpaceOf(pr.source), SpaceOf(pr.target))]

DataProject(m) == ProjectorProject(m, m.self.data_projector)

CopyScalarRhs(m) ==
    [m EXCEPT !.self.broken_rhs.scalar = m.self.unbroken_rhs.scalar]

\* self.ksp.solve(b, x): the solver converges; or stops without converging
\* and returns (the converged reason is not looked at); or raises
KspSolve(m) ==
    LET lam == IF m.oracle.outcome = "converged"
               THEN Solve(m.self.S.val, m.self.schur_rhs.val)
               ELSE m.oracle.iterate
        m1 == [m EXCEPT !.self.trace_solution.val = lam,
                        !.self.ksp.reason = IF m.oracle.outcome = "converged"
                                            THEN "converged" ELSE "diverged"]
    IN  IF m.oracle.outcome = "error" THEN Raise(m1, "PETSc.Error") ELSE m1

AssemblePressure(m) ==
    [m EXCEPT !.self.broken_solution.scalar =
        Pressure(m.P.vals, m.self.broken_rhs.vec, m.self.broken_rhs.scalar,
                 m.self.trace_solution.val)]

AssembleVelocity(m) ==
    [m EXCEPT !.self.broken_solution.vec =
        Velocity(m.P.vals, m.self.broken_rhs.vec, m.self.broken_solution.scalar,
                 m.self.trace_solution.val)]

CopyPressure(m) ==
    [m EXCEPT !.self.unbroken_solution.scalar = m.self.broken_solution.scalar]

Project(m) == ProjectorProject(m, m.self.projector)

\* with self.unbroken_solution.dat.vec_ro as v: v.copy(y)
CopyY(m) ==
    [m EXCEPT !.y = [vec |-> m.self.unbroken_solution.vec,
                     scalar |-> m.self.unbroken_solution.scalar]]

\* a variant that reconstructs the velocity before the pressure
ApplyProgramVelocityFirst ==
    <<"copy_x", "data_project", "copy_scalar_rhs", "assemble_Srhs",
      "ksp_solve", "assemble_velocity", "assemble_pressure",
      "copy_pressure", "project", "copy_y">>

ApplyProgram ==
    <<"copy_x", "data_project", "copy_scalar_rhs", "assemble_Srhs",
      "ksp_solve", "assemble_pressure", "assemble_velocity",
      "copy_pressure", "project", "copy_y">>

-----------------------------------------------------------------------------
(* The steps of view *)

PushASCIITab(m) == [m EXCEPT !.viewer = @ + 1]

PopASCIITab(m) == [m EXCEPT !.viewer = @ - 1]

\* self.ksp.view(viewer): self.ksp is not set before initialize
KspView(m) ==
    IF m.self.ksp.id = 0 THEN Raise(m, "AttributeError") ELSE m

ViewProgram ==
    <<"printfASCII", "pushASCIITab", "printfASCII", "pushASCIITab",
      "ksp_view", "popASCIITab">>

-----------------------------------------------------------------------------
(* Running a call: its steps in order, until one raises *)

Exec(m, step) ==
    CASE step = "check_extruded" -> CheckExtruded(m)
      [] step = "check_len" -> CheckLen(m)
      [] step = "check_shapes" -> CheckShapes(m)
      [] step = "select_W" -> SelectW(m)
      [] step = "trace_degree" -> DeriveTraceDegree(m)
      [] step = "TraceSpace" -> CreateTraceSpace(m)
      [] step = "alloc_fields" -> AllocFields(m)
      [] step = "alloc_schur_rhs" -> AllocSchurRhs(m)
      [] step = "allocate_S" -> AllocateS(m)
      [] step = "assemble_S" -> AssembleS(m)
      [] step = "schur_nullspace" -> SetSchurNullspace(m)
      [] step = "ksp_create" -> KspCreate(m)
      [] step = "ksp_setOperators" -> KspSetOperators(m)
      [] step = "ksp_setUp" -> KspSetUp(m)
      [] step = "ksp_setFromOptions" -> KspSetFromOptions(m)
      [] step = "data_projector" -> CreateDataProjector(m)
      [] step = "projector" -> CreateProjector(m)
      [] step = "assemble_Srhs" -> AssembleSrhs(m)
      [] step = "copy_x" -> CopyX(m)
      [] step = "data_project" -> DataProject(m)
      [] step = "copy_scalar_rhs" -> CopyScalarRhs(m)
      [] step = "ksp_solve" -> KspSolve(m)
      [] step = "assemble_pressure" -> AssemblePressure(m)
      [] step = "assemble_velocity" -> AssembleVelocity(m)
      [] step = "copy_pressure" -> CopyPressure(m)
      [] step = "project" -> Project(m)
      [] step = "copy_y" -> CopyY(m)
      [] step = "printfASCII" -> m
      [] step = "pushASCIITab" -> PushASCIITab(m)
      [] step = "ksp_view" -> KspView(m)
      [] step = "popASCIITab" -> PopASCIITab(m)

RECURSIVE Run(_, _)
Run(m, prog) ==
    IF prog = <<>> \/ m.raised # "none"
    THEN m
    ELSE Run([Exec(m, Head(prog)) EXCEPT !.log = Append(m.log, Head(prog))],
             Tail(prog))

\* what a call leaves behind
Return(name, m, pc) ==
    /\ P' = m.P
    /\ self' = pc
    /\ y' = m.y
    /\ viewer' = m.viewer
    /\ last' = [name |-> name, raised |-> m.raised, log |-> m.log,
                x |-> m.x, tab0 |-> viewer]
    /\ updatesInRow' = IF name = "update" THEN updatesInRow + 1 ELSE 0

-----------------------------------------------------------------------------
(* The operations *)

Constructed ==
    /\ self = NewPC
    /\ y = NoCall.x
    /\ viewer = 0
    /\ last = NoCall
    /\ updatesInRow = 0

Init == P \in SolveContexts /\ Constructed

SetupInit == P \in Contexts /\ Constructed

\* PCBase.setUp calls initialize the first time
Initialize ==
    /\ ~self.initialized
    /\ LET m == Run(StartCall(NoCall.x, NoOracle), InitProgram)
       IN  Return("initialize", m,
                  IF m.raised = "none"
                  THEN [m.self EXCEPT !.initialized = TRUE]
                  ELSE m.self)

Update ==
    /\ self.initialized
    /\ updatesInRow < MaxUpdates
    /\ LET m == Run(StartCall(NoCall.x, NoOracle), UpdateProgram)
       IN  Return("update", m, m.self)

Apply ==
    /\ self.initialized
    /\ \E x \in MixedVecs :
       \E outcome \in {"converged", "diverged", "error"} :
       \E iterate \in Iterates :
          /\ outcome = "converged" => iterate = 0
          /\ LET m == Run(StartCall(x, [outcome |-> outcome, iterate |-> iterate]),
                          ApplyProgram)
             IN  Return("apply", m, m.self)

\* a variant that returns without raising
ApplyTransposeSilent ==
    /\ \E x \in MixedVecs :
          LET m == StartCall(x, NoOracle)
          IN  Return("applyTranspose", [m EXCEPT !.x = NoCall.x], m.self)

ApplyTranspose ==
    /\ \E x \in MixedVecs :
          LET m == Raise(StartCall(x, NoOracle), "NotImplementedError")
          IN  Return("applyTranspose", [m EXCEPT !.x = NoCall.x], m.self)

View ==
    /\ viewer + 2 <= MaxTab
    /\ LET m == Run(StartCall(NoCall.x, NoOracle), ViewProgram)
       IN  Return("view", m, m.self)

\* the caller changes the values of the original operator
OperatorChanged ==
    /\ LET m == [StartCall(NoCall.x, NoOracle) EXCEPT !.P.vals = 0 - @]
       IN  Return("operatorChanged", m, m.self)

Next ==
    \/ Initialize
    \/ Update
    \/ Apply
    \/ ApplyTranspose
    \/ View
    \/ OperatorChanged

Spec == Init /\ [][Next]_vars

\* the set-up phase, over every context
SetupNext ==
    \/ Initialize
    \/ Update
    \/ ApplyTranspose
    \/ View
    \/ OperatorChanged

SetupSpec == SetupInit /\ [][SetupNext]_vars

-----------------------------------------------------------------------------
(* Properties *)

Pos(seq, e) == CHOOSE i \in 1..Len(seq) : seq[i] = e

Count(seq, e) == Cardinality({i \in 1..Len(seq) : seq[i] = e})

ConfigErrors == {"NotImplementedError", "AssertionError", "ValueError"}

\* the context is one initialize rejects before deriving the trace degree
Rejected(c) ==
    \/ c.extruded
    \/ Len(c.shapes) # 2
    \/ \A i \in DOMAIN c.shapes : c.shapes[i]

\* the context reaches the derivation of the trace degree
ReachesTraceDegree(c) ==
    /\ ~Rejected(c)
    /\ Cardinality({i \in DOMAIN c.shapes : c.shapes[i]}) = 1

\* C1: every apply runs its steps in the order copy x, project the vector
\* part of the right-hand side, copy its scalar part, assemble schur_rhs,
\* solve, reconstruct the pressure, reconstruct the velocity, copy the
\* pressure, project the velocity, copy to y; none is skipped or repeated (a
\* call the solver aborts by raising has run exactly the steps up to the
\* solve), and the velocity is computed from the pressure and the
\* trace_solution written in the same call.
C1_ApplyOrder ==
    last.name = "apply" =>
        /\ last.raised = "none" =>
              last.log = <<"copy_x", "data_project", "copy_scalar_rhs",
                           "assemble_Srhs", "ksp_solve", "assemble_pressure",
                           "assemble_velocity", "copy_pressure", "project",
                           "copy_y">>
        /\ last.raised # "none" =>
              last.log = <<"copy_x", "data_project", "copy_scalar_rhs",
                           "assemble_Srhs", "ksp_solve">>
        /\ self.unbroken_rhs.vec = last.x.vec
        /\ self.unbroken_rhs.scalar = last.x.scalar
        /\ self.schur_rhs.val = Forward(P.vals, self.broken_rhs)
        /\ self.ksp.reason = "converged" =>
              self.trace_solution.val = Solve(self.S.val, self.schur_rhs.val)
        /\ last.raised = "none" =>
              /\ self.broken_solution.scalar =
                    Pressure(P.vals, self.broken_rhs.vec, self.broken_rhs.scalar,
                             self.trace_solution.val)
              /\ self.broken_solution.vec =
                    Velocity(P.vals, self.broken_rhs.vec,
                             self.broken_solution.scalar, self.trace_solution.val)
              /\ self.unbroken_solution.scalar = self.broken_solution.scalar
              /\ self.unbroken_solution.vec =
                    (self.broken_solution.vec[1] + self.broken_solution.vec[2]) \div 2
              /\ y = [vec |-> self.unbroken_solution.vec,
                      scalar |-> self.unbroken_solution.scalar]

C1_Witness ==
    /\ last.name = "apply"
    /\ last.raised = "none"
    /\ self.ksp.reason = "converged"
    /\ self.trace_solution.val # 0
    /\ self.broken_solution.vec # <<0, 0>>
    /\ y.vec # 0

\* C2: after apply, the vector component of broken_rhs is the projection of
\* the vector component of the input x (the forward projector goes from
\* unbroken_rhs to broken_rhs), and its scalar component is a copy of the
\* scalar component of x.
C2_ForwardProjection ==
    last.name = "apply" =>
        /\ self.data_projector.source = "unbroken_rhs"
        /\ self.data_projector.target = "broken_rhs"
        /\ self.broken_rhs.vec = <<last.x.vec, last.x.vec>>
        /\ self.broken_rhs.scalar = last.x.scalar

\* C3: every apply invokes the solve exactly once; a solve that does not
\* converge makes apply raise; apply either runs the whole pipeline and
\* writes y, or raises without writing y.
C3_SolveFailureRaises ==
    last.name = "apply" =>
        /\ Count(last.log, "ksp_solve") = 1
        /\ self.ksp.reason # "converged" => last.raised # "none"
        /\ last.raised = "none" => last.log = ApplyProgram
        /\ last.raised # "none" => Count(last.log, "copy_y") = 0

\* C4: an update that directly follows an update (no change of the operator,
\* no apply in between) leaves S and schur_rhs as they were; every update
\* assembles both S and schur_rhs, however many were made before.
C4_UpdateIdempotent ==
    [][(last'.name = "update" /\ updatesInRow' = updatesInRow + 1) =>
          /\ last'.raised = "none"
          /\ last'.log = <<"assemble_S", "assemble_Srhs">>
          /\ self'.S.val = SchurComplement(P.vals)
          /\ self'.schur_rhs.val = Forward(P.vals, self.broken_rhs)
          /\ last.name = "update" =>
                /\ self'.S = self.S
                /\ self'.schur_rhs = self.schur_rhs]_vars

C4_Witness ==
    /\ last.name = "update"
    /\ updatesInRow = 2
    /\ self.S.val # 0
    /\ self.schur_rhs.val # 0

\* C5: once initialized, no call changes which objects the PC holds (the
\* fields, S, the KSP, the projectors), the KSP keeps its operator and its
\* configuration, the entries of S change only in initialize and update, and
\* apply leaves S as it was.
C5_ObjectsPersist ==
    [][/\ self.initialized =>
             /\ self'.initialized
             /\ Ids(self') = Ids(self)
             /\ self'.ksp.operator = self.ksp.operator
             /\ self'.ksp.operator = self'.S.id
             /\ self'.ksp.prefix = self.ksp.prefix
             /\ self'.ksp.isSetUp = self.ksp.isSetUp
             /\ self'.ksp.fromOptions = self.ksp.fromOptions
       /\ self'.S.val # self.S.val => last'.name \in {"initialize", "update"}
       /\ last'.name = "apply" => self'.S = self.S]_vars

C5_Witness ==
    /\ self.initialized
    /\ last.name = "apply"
    /\ last.raised = "none"
    /\ self.S.id # 0
    /\ self.S.val = SchurComplement(P.vals)
    /\ self.ksp.operator = self.S.id
    /\ y.vec # 0

\* C6: initialize attaches no nullspace to S when P has none; when P's
\* nullspace has k vectors the nullspace of S has k vectors, the n-th being
\* the n-th vector of P copied, projected into the broken space and mapped by
\* K * Atilde.inv; and the nullspace is attached before the KSP is given the
\* matrix and set up.
C6_NullspaceTransfer ==
    /\ self.initialized =>
          /\ P.nullspace.handle = 0 => self.S.nullspace.handle = 0
          /\ P.nullspace.handle # 0 =>
                /\ self.S.nullspace.handle # 0
                /\ Len(self.S.nullspace.vecs) = Len(P.nullspace.vecs)
          /\ self.ksp.nullspaceAtSetUp = self.S.nullspace
    /\ (last.name = "initialize" /\ last.raised = "none") =>
          /\ \A n \in DOMAIN P.nullspace.vecs :
                self.S.nullspace.vecs[n] =
                    Forward(P.vals,
                            [vec |-> <<P.nullspace.vecs[n].vec,
                                       P.nullspace.vecs[n].vec>>,
                             scalar |-> P.nullspace.vecs[n].scalar])
          /\ Pos(last.log, "schur_nullspace") < Pos(last.log, "ksp_setOperators")
          /\ Pos(last.log, "ksp_setOperators") < Pos(last.log, "ksp_setUp")

C6_Witness ==
    /\ last.name = "initialize"
    /\ self.initialized
    /\ Len(P.nullspace.vecs) = 2
    /\ Len(self.S.nullspace.vecs) = 2
    /\ self.S.nullspace.vecs[2] # 0

\* C7: for an extruded mesh, a mixed space without exactly two components,
\* or two vector-valued components, initialize raises, and nothing has been
\* allocated, assembled or created: the PC is as it was constructed.
C7_ConfigErrorsFirst ==
    Rejected(P) =>
        /\ self = NewPC
        /\ last.name = "initialize" =>
              /\ last.raised \in ConfigErrors
              /\ P.extruded => last.raised = "NotImplementedError"
              /\ (~P.extruded /\ Len(P.shapes) # 2) =>
                    last.raised = "AssertionError"
              /\ (~P.extruded /\ Len(P.shapes) = 2) =>
                    last.raised = "ValueError"

C7_Witness ==
    /\ last.name = "initialize"
    /\ ~P.extruded
    /\ P.shapes = <<TRUE, TRUE>>
    /\ last.raised = "ValueError"
    /\ self = NewPC

\* C8: the trace space has degree d - 1 for a Raviart-Thomas space of
\* degree d and degree d for a Brezzi-Douglas-Marini space of degree d; for
\* any other family initialize raises and creates no trace space.
C8_TraceDegree ==
    /\ self.initialized =>
          /\ self.TraceSpace.id # 0
          /\ P.family \in {"Raviart-Thomas", "Brezzi-Douglas-Marini"}
          /\ P.family = "Raviart-Thomas" =>
                self.TraceSpace.degree = P.degree - 1
          /\ P.family = "Brezzi-Douglas-Marini" =>
                self.TraceSpace.degree = P.degree
    /\ (last.name = "initialize" /\ ReachesTraceDegree(P)) =>
          IF P.family \in {"Raviart-Thomas", "Brezzi-Douglas-Marini"}
          THEN last.raised = "none" /\ self.initialized
          ELSE /\ last.raised = "ValueError"
               /\ self.TraceSpace = NoSpace
               /\ ~self.initialized

C8_Witness ==
    /\ last.name = "initialize"
    /\ self.initialized
    /\ P.family = "Raviart-Thomas"
    /\ P.degree = 2
    /\ self.TraceSpace.degree = 1

\* C9: applyTranspose raises NotImplementedError in every state of the PC
\* and changes neither y nor the PC nor the operator.
C9_ApplyTransposeRaises ==
    [][last'.name = "applyTranspose" =>
          /\ last'.raised = "NotImplementedError"
          /\ last'.log = <<>>
          /\ self' = self
          /\ y' = y
          /\ P' = P
          /\ viewer' = viewer]_vars

C9_Witness ==
    /\ last.name = "applyTranspose"
    /\ last.raised = "NotImplementedError"
    /\ self.initialized
    /\ self.ksp.reason # "none"
    /\ y.vec # 0

\* C10: a view that returns has popped every tab level it pushed: it leaves
\* the viewer at the tab level it found it at.
C10_ViewRestoresTab ==
    (last.name = "view" /\ last.raised = "none") =>
        /\ last.log = ViewProgram
        /\ viewer = last.tab0

====
